---- MODULE Spec2Model ----
(***************************************************************************)
(* Model of the payments engine (src/src/lib.rs): the Engine owns a map    *)
(* from client id to Account and an engine-wide set of processed           *)
(* transaction ids; process_record dispatches one input transaction to     *)
(* deposit / withdraw / dispute / resolve / chargeback.                    *)
(*                                                                         *)
(* Decimal amounts are modelled as integers (a fixed-point unit); the      *)
(* engine only adds, subtracts and compares them.                          *)
(***************************************************************************)
EXTENDS Integers, FiniteSets, Sequences, TLC

\* ---- bounds of the model ----
NumClients == 2
MaxTx == 2
MaxAmount == 1
\* One output unit (0.0001, the 4th fractional digit) is SubUnits amount units:
\* an amount that is no multiple of SubUnits has more than 4 fractional digits.
SubUnits == 2
\* The rows of one input that are skipped with a warning are counted up to here.
MaxSkipped == 2

ClientIds == 1..NumClients
TransactionIds == 1..MaxTx
\* Decimal is signed and no handler checks the sign: an input row may carry a
\* negative amount as well as a positive one.
Amounts == {-1} \cup (1..MaxAmount)

\* accounts, transaction_ids_processed: the fields of the Engine.
\* result: how far main has come ("NotStarted", "Running" inside
\*   apply_transactions, "Ok" once it returned Ok(()), "OpenFile" once it
\*   returned that error).
\* skipped: the number of rows skipped with a warn! diagnostic so far.
\* written: what write_accounts has sent to the output.
VARIABLES accounts, transaction_ids_processed, result, skipped, written

vars == <<accounts, transaction_ids_processed, result, skipped, written>>

\* ---- data model ----
TransactionState == {"Normal", "Disputed", "Resolved", "ChargedBack"}

EmptyMap == [k \in {} |-> 0]

\* HashMap::insert
Insert(m, k, v) == [x \in (DOMAIN m) \cup {k} |-> IF x = k THEN v ELSE m[x]]

\* Transaction::Deposit(Deposit { amount, state })
DepositTx(amount, state) == [kind |-> "Deposit", amount |-> amount, state |-> state]

\* Transaction::Withdrawal(Withdrawal { amount })
WithdrawalTx(amount) == [kind |-> "Withdrawal", amount |-> amount]

\* Account::default()
DefaultAccount ==
    [available |-> 0, held |-> 0, locked |-> FALSE, transactions |-> EmptyMap]

\* Account::total
total(account) == account.available + account.held

\* The engine as a value: the two fields of struct Engine.
Engine(accs, ids) == [accounts |-> accs, transaction_ids_processed |-> ids]

\* Engine::default()
EngineDefault == Engine(EmptyMap, {})

\* ---- account lookup ----

\* Mutant: the engine-wide processed-id check is left out.
get_unlocked_account_or_default_no_id_check(e, client_id, tx_id) ==
    LET accs == IF client_id \in DOMAIN e.accounts
                THEN e.accounts
                ELSE Insert(e.accounts, client_id, DefaultAccount)
    IN  [accounts |-> accs, some |-> ~accs[client_id].locked]

\* Mutant: get_mut instead of entry().or_default(): a missing account is not
\* created and the command is dropped.
get_unlocked_account_or_default_get_only(e, client_id, tx_id) ==
    [accounts |-> e.accounts,
     some |-> /\ client_id \in DOMAIN e.accounts
              /\ ~e.accounts[client_id].locked
              /\ tx_id \notin e.transaction_ids_processed]

\* Mutant: the lock is taken to be engine-wide: any locked account blocks
\* deposits and withdrawals of every client.
get_unlocked_account_or_default_any_locked(e, client_id, tx_id) ==
    LET accs == IF client_id \in DOMAIN e.accounts
                THEN e.accounts
                ELSE Insert(e.accounts, client_id, DefaultAccount)
    IN  [accounts |-> accs,
         some |-> /\ \A c \in DOMAIN accs : ~accs[c].locked
                  /\ tx_id \notin e.transaction_ids_processed]

\* Engine::get_unlocked_account_or_default: entry(client).or_default() first
\* (the account is materialised even when None is returned), then the lock
\* check, then the engine-wide processed-id check.
get_unlocked_account_or_default(e, client_id, tx_id) ==
    LET accs == IF client_id \in DOMAIN e.accounts
                THEN e.accounts
                ELSE Insert(e.accounts, client_id, DefaultAccount)
    IN  [accounts |-> accs,
         some |-> /\ ~accs[client_id].locked
                  /\ tx_id \notin e.transaction_ids_processed]

\* Mutant: the lock check is left out.
get_unlocked_account_ignores_lock(e, client_id) ==
    client_id \in DOMAIN e.accounts

\* Engine::get_unlocked_account: get_mut(client)?, then the lock check.
get_unlocked_account(e, client_id) ==
    /\ client_id \in DOMAIN e.accounts
    /\ ~e.accounts[client_id].locked

\* `let Some(Transaction::Deposit(deposit)) = account.transactions.get_mut(&tx_id)`
IsStoredDeposit(account, tx_id) ==
    /\ tx_id \in DOMAIN account.transactions
    /\ account.transactions[tx_id].kind = "Deposit"

\* ---- operations ----

\* Mutant: the id of an applied deposit is not added to the processed-id set.
deposit_forgets_id(e, client_id, tx_id, amount) ==
    LET r == get_unlocked_account_or_default(e, client_id, tx_id) IN
    IF ~r.some
    THEN Engine(r.accounts, e.transaction_ids_processed)
    ELSE Engine(
           [r.accounts EXCEPT ![client_id] =
              [@ EXCEPT !.available = @ + amount,
                        !.transactions = Insert(@, tx_id, DepositTx(amount, "Normal"))]],
           e.transaction_ids_processed)

\* Engine::deposit
deposit(e, client_id, tx_id, amount) ==
    LET r == get_unlocked_account_or_default(e, client_id, tx_id) IN
    IF ~r.some
    THEN Engine(r.accounts, e.transaction_ids_processed)
    ELSE Engine(
           [r.accounts EXCEPT ![client_id] =
              [@ EXCEPT !.available = @ + amount,
                        !.transactions = Insert(@, tx_id, DepositTx(amount, "Normal"))]],
           e.transaction_ids_processed \cup {tx_id})

\* Mutant: the funds check compares the total, not the available balance.
withdraw_checks_total(e, client_id, tx_id, amount) ==
    LET r == get_unlocked_account_or_default(e, client_id, tx_id) IN
    IF ~r.some
    THEN Engine(r.accounts, e.transaction_ids_processed)
    ELSE IF total(r.accounts[client_id]) < amount
    THEN Engine(r.accounts, e.transaction_ids_processed)
    ELSE Engine(
           [r.accounts EXCEPT ![client_id] =
              [@ EXCEPT !.available = @ - amount,
                        !.transactions = Insert(@, tx_id, WithdrawalTx(amount))]],
           e.transaction_ids_processed \cup {tx_id})

\* Mutant: the id is marked as processed before the funds check, so a rejected
\* withdrawal consumes it.
withdraw_consumes_id_on_reject(e, client_id, tx_id, amount) ==
    LET r == get_unlocked_account_or_default(e, client_id, tx_id) IN
    IF ~r.some
    THEN Engine(r.accounts, e.transaction_ids_processed)
    ELSE IF r.accounts[client_id].available < amount
    THEN Engine(r.accounts, e.transaction_ids_processed \cup {tx_id})
    ELSE Engine(
           [r.accounts EXCEPT ![client_id] =
              [@ EXCEPT !.available = @ - amount,
                        !.transactions = Insert(@, tx_id, WithdrawalTx(amount))]],
           e.transaction_ids_processed \cup {tx_id})

\* Engine::withdraw
withdraw(e, client_id, tx_id, amount) ==
    LET r == get_unlocked_account_or_default(e, client_id, tx_id) IN
    IF ~r.some
    THEN Engine(r.accounts, e.transaction_ids_processed)
    ELSE IF r.accounts[client_id].available < amount
    THEN Engine(r.accounts, e.transaction_ids_processed)
    ELSE Engine(
           [r.accounts EXCEPT ![client_id] =
              [@ EXCEPT !.available = @ - amount,
                        !.transactions = Insert(@, tx_id, WithdrawalTx(amount))]],
           e.transaction_ids_processed \cup {tx_id})

\* Mutant: the check that the deposit is Normal is left out.
dispute_any_state(e, client_id, tx_id) ==
    IF ~get_unlocked_account(e, client_id) THEN e
    ELSE IF ~IsStoredDeposit(e.accounts[client_id], tx_id) THEN e
    ELSE LET amount == e.accounts[client_id].transactions[tx_id].amount IN
         [e EXCEPT !.accounts[client_id] =
            [@ EXCEPT !.available = @ - amount,
                      !.held = @ + amount,
                      !.transactions[tx_id].state = "Disputed"]]

\* Mutant: the record is looked up in every account, not only in the account
\* of the client the command names.
dispute_any_client(e, client_id, tx_id) ==
    LET owners == {c \in DOMAIN e.accounts :
                     /\ ~e.accounts[c].locked
                     /\ IsStoredDeposit(e.accounts[c], tx_id)
                     /\ e.accounts[c].transactions[tx_id].state = "Normal"}
    IN  IF owners = {} THEN e
        ELSE LET c == CHOOSE o \in owners : TRUE
                 amount == e.accounts[c].transactions[tx_id].amount
             IN  [e EXCEPT !.accounts[c] =
                    [@ EXCEPT !.available = @ - amount,
                              !.held = @ + amount,
                              !.transactions[tx_id].state = "Disputed"]]

\* Mutant: the account is fetched with entry().or_default(), as deposit and
\* withdraw do, so a dispute naming an unseen client creates its account.
dispute_or_default(e, client_id, tx_id) ==
    IF client_id \notin DOMAIN e.accounts
    THEN [e EXCEPT !.accounts = Insert(e.accounts, client_id, DefaultAccount)]
    ELSE IF ~get_unlocked_account(e, client_id) THEN e
    ELSE IF ~IsStoredDeposit(e.accounts[client_id], tx_id) THEN e
    ELSE IF e.accounts[client_id].transactions[tx_id].state # "Normal" THEN e
    ELSE LET amount == e.accounts[client_id].transactions[tx_id].amount IN
         [e EXCEPT !.accounts[client_id] =
            [@ EXCEPT !.available = @ - amount,
                      !.held = @ + amount,
                      !.transactions[tx_id].state = "Disputed"]]

\* Engine::dispute
dispute(e, client_id, tx_id) ==
    IF ~get_unlocked_account(e, client_id) THEN e
    ELSE IF ~IsStoredDeposit(e.accounts[client_id], tx_id) THEN e
    ELSE IF e.accounts[client_id].transactions[tx_id].state # "Normal" THEN e
    ELSE LET amount == e.accounts[client_id].transactions[tx_id].amount IN
         [e EXCEPT !.accounts[client_id] =
            [@ EXCEPT !.available = @ - amount,
                      !.held = @ + amount,
                      !.transactions[tx_id].state = "Disputed"]]

\* Mutant: the released amount is not credited back to available.
resolve_no_credit(e, client_id, tx_id) ==
    IF ~get_unlocked_account(e, client_id) THEN e
    ELSE IF ~IsStoredDeposit(e.accounts[client_id], tx_id) THEN e
    ELSE IF e.accounts[client_id].transactions[tx_id].state # "Disputed" THEN e
    ELSE LET amount == e.accounts[client_id].transactions[tx_id].amount IN
         [e EXCEPT !.accounts[client_id] =
            [@ EXCEPT !.held = @ - amount,
                      !.transactions[tx_id].state = "Resolved"]]

\* Engine::resolve
resolve(e, client_id, tx_id) ==
    IF ~get_unlocked_account(e, client_id) THEN e
    ELSE IF ~IsStoredDeposit(e.accounts[client_id], tx_id) THEN e
    ELSE IF e.accounts[client_id].transactions[tx_id].state # "Disputed" THEN e
    ELSE LET amount == e.accounts[client_id].transactions[tx_id].amount IN
         [e EXCEPT !.accounts[client_id] =
            [@ EXCEPT !.held = @ - amount,
                      !.available = @ + amount,
                      !.transactions[tx_id].state = "Resolved"]]

\* Mutant: the check that the deposit is Disputed is left out.
chargeback_no_state_check(e, client_id, tx_id) ==
    IF ~get_unlocked_account(e, client_id) THEN e
    ELSE IF ~IsStoredDeposit(e.accounts[client_id], tx_id) THEN e
    ELSE LET amount == e.accounts[client_id].transactions[tx_id].amount IN
         [e EXCEPT !.accounts[client_id] =
            [@ EXCEPT !.held = @ - amount,
                      !.locked = TRUE,
                      !.transactions[tx_id].state = "ChargedBack"]]

\* Mutant: the charged-back amount is also taken from available.
chargeback_debits_available(e, client_id, tx_id) ==
    IF ~get_unlocked_account(e, client_id) THEN e
    ELSE IF ~IsStoredDeposit(e.accounts[client_id], tx_id) THEN e
    ELSE IF e.accounts[client_id].transactions[tx_id].state # "Disputed" THEN e
    ELSE LET amount == e.accounts[client_id].transactions[tx_id].amount IN
         [e EXCEPT !.accounts[client_id] =
            [@ EXCEPT !.held = @ - amount,
                      !.available = @ - amount,
                      !.locked = TRUE,
                      !.transactions[tx_id].state = "ChargedBack"]]

\* Mutant: the account is not locked by the chargeback.
chargeback_no_lock(e, client_id, tx_id) ==
    IF ~get_unlocked_account(e, client_id) THEN e
    ELSE IF ~IsStoredDeposit(e.accounts[client_id], tx_id) THEN e
    ELSE IF e.accounts[client_id].transactions[tx_id].state # "Disputed" THEN e
    ELSE LET amount == e.accounts[client_id].transactions[tx_id].amount IN
         [e EXCEPT !.accounts[client_id] =
            [@ EXCEPT !.held = @ - amount,
                      !.transactions[tx_id].state = "ChargedBack"]]

\* Engine::chargeback
chargeback(e, client_id, tx_id) ==
    IF ~get_unlocked_account(e, client_id) THEN e
    ELSE IF ~IsStoredDeposit(e.accounts[client_id], tx_id) THEN e
    ELSE IF e.accounts[client_id].transactions[tx_id].state # "Disputed" THEN e
    ELSE LET amount == e.accounts[client_id].transactions[tx_id].amount IN
         [e EXCEPT !.accounts[client_id] =
            [@ EXCEPT !.held = @ - amount,
                      !.locked = TRUE,
                      !.transactions[tx_id].state = "ChargedBack"]]

\* ---- commands ----

\* enum InputTransaction
InputTransaction ==
    [type : {"Deposit", "Withdrawal"}, client : ClientIds, tx : TransactionIds,
     amount : Amounts]
    \cup
    [type : {"Dispute", "Resolve", "Chargeback"}, client : ClientIds,
     tx : TransactionIds]

\* Engine::process_record
process_record(e, input) ==
    CASE input.type = "Deposit" -> deposit(e, input.client, input.tx, input.amount)
      [] input.type = "Withdrawal" -> withdraw(e, input.client, input.tx, input.amount)
      [] input.type = "Dispute" -> dispute(e, input.client, input.tx)
      [] input.type = "Resolve" -> resolve(e, input.client, input.tx)
      [] input.type = "Chargeback" -> chargeback(e, input.client, input.tx)

\* ---- input rows ----

\* The type field of a row as it stands in the file, one character per element.
TextDeposit == <<"d", "e", "p", "o", "s", "i", "t">>
TextWithdrawal == <<"w", "i", "t", "h", "d", "r", "a", "w", "a", "l">>
TextDispute == <<"d", "i", "s", "p", "u", "t", "e">>
TextResolve == <<"r", "e", "s", "o", "l", "v", "e">>
TextChargeback == <<"c", "h", "a", "r", "g", "e", "b", "a", "c", "k">>

\* Spellings an input file may use: the five lower-case words, a capitalised
\* one, one padded with blanks and a word that is no transaction type.
TypeTexts ==
    {TextDeposit, TextWithdrawal, TextDispute, TextResolve, TextChargeback,
     <<"D", "e", "p", "o", "s", "i", "t">>,
     <<" ">> \o TextResolve \o <<" ">>,
     <<"t", "r", "a", "n", "s", "f", "e", "r">>}

\* Option<Decimal>: None and Some(amount)
NoAmount == <<>>
SomeAmount(amount) == <<amount>>

\* What the csv reader's iterator can yield for one line: a row with the four
\* fields, a row that cannot be deserialized, or a failed read of the input.
ReadItems ==
    [kind : {"Row"}, tx_type : TypeTexts, client : ClientIds,
     tx : TransactionIds,
     amount : {SomeAmount(a) : a \in Amounts} \cup {NoAmount}]
    \cup {[kind |-> "Malformed"], [kind |-> "IoError"]}

RECURSIVE TrimStart(_)
TrimStart(s) ==
    IF s # <<>> /\ Head(s) = " " THEN TrimStart(Tail(s)) ELSE s

RECURSIVE TrimEnd(_)
TrimEnd(s) ==
    IF s # <<>> /\ s[Len(s)] = " " THEN TrimEnd(SubSeq(s, 1, Len(s) - 1)) ELSE s

\* csv::Trim::All on a field
Trim(s) == TrimEnd(TrimStart(s))

\* csv_reader.deserialize::<RawInputTransaction>(): Ok(raw) with the fields
\* trimmed, or Err(csv::Error) for a malformed row and for a failed read alike.
deserialize(item) ==
    IF item.kind = "Row"
    THEN [ok |-> TRUE,
          raw |-> [tx_type |-> Trim(item.tx_type), client |-> item.client,
                   tx |-> item.tx, amount |-> item.amount]]
    ELSE [ok |-> FALSE, error |-> item.kind]

\* TryFrom<RawInputTransaction> for InputTransaction: the type text is matched
\* as it is against the five lower-case words; get_amount()? fails on None.
try_from(raw) ==
    CASE raw.tx_type = TextDeposit ->
            IF raw.amount = NoAmount THEN [ok |-> FALSE]
            ELSE [ok |-> TRUE,
                  input |-> [type |-> "Deposit", client |-> raw.client,
                             tx |-> raw.tx, amount |-> raw.amount[1]]]
      [] raw.tx_type = TextWithdrawal ->
            IF raw.amount = NoAmount THEN [ok |-> FALSE]
            ELSE [ok |-> TRUE,
                  input |-> [type |-> "Withdrawal", client |-> raw.client,
                             tx |-> raw.tx, amount |-> raw.amount[1]]]
      [] raw.tx_type = TextDispute ->
            [ok |-> TRUE,
             input |-> [type |-> "Dispute", client |-> raw.client, tx |-> raw.tx]]
      [] raw.tx_type = TextResolve ->
            [ok |-> TRUE,
             input |-> [type |-> "Resolve", client |-> raw.client, tx |-> raw.tx]]
      [] raw.tx_type = TextChargeback ->
            [ok |-> TRUE,
             input |-> [type |-> "Chargeback", client |-> raw.client, tx |-> raw.tx]]
      [] OTHER -> [ok |-> FALSE]

\* Mutant: a row that fails the conversion ends the run with the error (`?`
\* instead of `continue`).
apply_record_propagates(e, item) ==
    IF ~deserialize(item).ok
    THEN [engine |-> e, result |-> "Running", warned |-> TRUE]
    ELSE IF ~try_from(deserialize(item).raw).ok
    THEN [engine |-> e, result |-> "InputValidation", warned |-> TRUE]
    ELSE [engine |-> process_record(e, try_from(deserialize(item).raw).input),
          result |-> "Running", warned |-> FALSE]

\* One turn of the loop of Engine::apply_transactions: Err(err) => warn! and
\* continue, for the record and for the conversion alike, otherwise
\* process_record.  No branch leaves the loop.
apply_record(e, item) ==
    IF ~deserialize(item).ok
    THEN [engine |-> e, result |-> "Running", warned |-> TRUE]
    ELSE IF ~try_from(deserialize(item).raw).ok
    THEN [engine |-> e, result |-> "Running", warned |-> TRUE]
    ELSE [engine |-> process_record(e, try_from(deserialize(item).raw).input),
          result |-> "Running", warned |-> FALSE]

\* ---- output rows ----

\* Decimal::round_dp(4): to the nearest output unit, a tie to the even one
\* (banker's rounding).  \div rounds down and % is never negative.
round_dp(value) ==
    LET q == value \div SubUnits
        r == value % SubUnits
    IN  IF 2 * r < SubUnits THEN q
        ELSE IF 2 * r > SubUnits THEN q + 1
        ELSE IF q % 2 = 0 THEN q ELSE q + 1

\* format_decimal: round_dp(4).normalize().to_string().  The text of a
\* normalized decimal is one per value, so the rendered field is represented
\* by the rounded number, counted in output units.
format_decimal(value) == round_dp(value)

\* struct AccountRow, as the loop of write_accounts fills it.
AccountRow(client, account) ==
    [client |-> client,
     available |-> format_decimal(account.available),
     held |-> format_decimal(account.held),
     total |-> format_decimal(total(account)),
     locked |-> account.locked]

\* The rows write_accounts serializes: one per entry of the accounts map.
account_rows(e) == {AccountRow(c, e.accounts[c]) : c \in DOMAIN e.accounts}

\* The orders a HashMap with the keys S may be iterated in: the order depends
\* on the map's random hash seed, so any order is possible.
IterationOrders(S) ==
    {p \in [1..Cardinality(S) -> S] :
        \A i \in 1..Cardinality(S), j \in 1..Cardinality(S) :
            p[i] = p[j] => i = j}

\* Engine::write_accounts: the outputs it can produce for the engine e.
write_accounts(e) ==
    {[i \in 1..Cardinality(DOMAIN e.accounts) |-> AccountRow(p[i], e.accounts[p[i]])] :
        p \in IterationOrders(DOMAIN e.accounts)}

NotWritten == [done |-> FALSE, rows |-> <<>>]

\* ---- the state machine ----

\* The engine the two variables hold.
Self == Engine(accounts, transaction_ids_processed)

Set(e) ==
    /\ accounts' = e.accounts
    /\ transaction_ids_processed' = e.transaction_ids_processed
    /\ UNCHANGED <<result, skipped, written>>

\* Engine::new
Init ==
    /\ accounts = EngineDefault.accounts
    /\ transaction_ids_processed = EngineDefault.transaction_ids_processed
    /\ result = "NotStarted"
    /\ skipped = 0
    /\ written = NotWritten

Deposit(c, t, a) == Set(deposit(Self, c, t, a))

Withdraw(c, t, a) == Set(withdraw(Self, c, t, a))

Dispute(c, t) == Set(dispute(Self, c, t))

Resolve(c, t) == Set(resolve(Self, c, t))

Chargeback(c, t) == Set(chargeback(Self, c, t))

Next ==
    \/ \E c \in ClientIds, t \in TransactionIds, a \in Amounts : Deposit(c, t, a)
    \/ \E c \in ClientIds, t \in TransactionIds, a \in Amounts : Withdraw(c, t, a)
    \/ \E c \in ClientIds, t \in TransactionIds : Dispute(c, t)
    \/ \E c \in ClientIds, t \in TransactionIds : Resolve(c, t)
    \/ \E c \in ClientIds, t \in TransactionIds : Chargeback(c, t)

\* The handlers driven one command at a time, as process_record is.
Spec == Init /\ [][Next]_vars

\* The amounts a well-formed input carries: Deposit and Withdrawal rows with a
\* positive amount.
PositiveAmounts == 1..MaxAmount

NextPositive ==
    \/ \E c \in ClientIds, t \in TransactionIds, a \in PositiveAmounts :
            Deposit(c, t, a)
    \/ \E c \in ClientIds, t \in TransactionIds, a \in PositiveAmounts :
            Withdraw(c, t, a)
    \/ \E c \in ClientIds, t \in TransactionIds : Dispute(c, t)
    \/ \E c \in ClientIds, t \in TransactionIds : Resolve(c, t)
    \/ \E c \in ClientIds, t \in TransactionIds : Chargeback(c, t)

\* The handlers driven by the commands of a well-formed input.
SpecPositive == Init /\ [][NextPositive]_vars

\* Engine::apply_transactions_from_file: File::open succeeded.
OpenFile ==
    /\ result = "NotStarted"
    /\ result' = "Running"
    /\ UNCHANGED <<accounts, transaction_ids_processed, skipped, written>>

\* Engine::apply_transactions_from_file: File::open failed, the error is
\* returned and main ends.
OpenFileFails ==
    /\ result = "NotStarted"
    /\ result' = "OpenFile"
    /\ UNCHANGED <<accounts, transaction_ids_processed, skipped, written>>

\* Engine::apply_transactions: one turn of the loop over the records.
ReadRecord(item) ==
    /\ result = "Running"
    /\ apply_record(Self, item).warned => skipped < MaxSkipped
    /\ accounts' = apply_record(Self, item).engine.accounts
    /\ transaction_ids_processed'
         = apply_record(Self, item).engine.transaction_ids_processed
    /\ result' = apply_record(Self, item).result
    /\ skipped' = IF apply_record(Self, item).warned THEN skipped + 1 ELSE skipped
    /\ UNCHANGED written

\* Engine::apply_transactions: the iterator is exhausted, Ok(()) is returned.
EndOfInput ==
    /\ result = "Running"
    /\ result' = "Ok"
    /\ UNCHANGED <<accounts, transaction_ids_processed, skipped, written>>

\* main: after Ok, write_accounts(io::stdout()).
WriteAccounts ==
    /\ result = "Ok"
    /\ ~written.done
    /\ \E out \in write_accounts(Self) : written' = [done |-> TRUE, rows |-> out]
    /\ UNCHANGED <<accounts, transaction_ids_processed, result, skipped>>

NextRun ==
    \/ OpenFile
    \/ OpenFileFails
    \/ \E item \in ReadItems : ReadRecord(item)
    \/ EndOfInput
    \/ WriteAccounts

\* main: open the input, apply its rows, write the accounts.
SpecRun == Init /\ [][NextRun]_vars

\* ---- helpers for the properties ----

\* The account of a client as the engine sees it: a missing account reads as
\* the default one (zero balances, unlocked, no stored transaction).
AccountOrDefault(e, c) ==
    IF c \in DOMAIN e.accounts THEN e.accounts[c] ELSE DefaultAccount

\* Every stored record was created from a positive amount.
AllAmountsPositive ==
    \A c \in DOMAIN accounts : \A t \in DOMAIN accounts[c].transactions :
        accounts[c].transactions[t].amount > 0

StoredWithState(c, state) ==
    {t \in DOMAIN accounts[c].transactions :
        /\ accounts[c].transactions[t].kind = "Deposit"
        /\ accounts[c].transactions[t].state = state}

StoredWithdrawals(c) ==
    {t \in DOMAIN accounts[c].transactions :
        accounts[c].transactions[t].kind = "Withdrawal"}

\* ---- C1 ----
\* C1: when every accepted deposit/withdrawal amount is positive, every account
\* has held >= 0, and the reported total is available + held.
C1_HeldNonNegative ==
    AllAmountsPositive =>
        \A c \in DOMAIN accounts :
            /\ accounts[c].held >= 0
            /\ total(accounts[c]) - accounts[c].held = accounts[c].available

\* An account with disputed funds whose deposit was already withdrawn.
C1_Witness ==
    /\ AllAmountsPositive
    /\ \E c \in DOMAIN accounts :
          /\ accounts[c].held > 0
          /\ accounts[c].available < 0
          /\ StoredWithdrawals(c) # {}

\* ---- C2 ----
\* C2: once an account is locked, no step changes any of its fields (balances,
\* lock flag, stored transactions and their dispute states).
C2_LockedFrozen ==
    [][\A c \in DOMAIN accounts :
          accounts[c].locked =>
              /\ c \in DOMAIN accounts'
              /\ accounts'[c] = accounts[c]]_vars

\* A locked account that still holds a deposit a dispute could otherwise act on.
C2_Witness ==
    \E c \in DOMAIN accounts :
        /\ accounts[c].locked
        /\ StoredWithState(c, "Normal") # {}
        /\ accounts[c].available > 0

\* ---- C3 ----
DisputeStateMoves ==
    {<<"Normal", "Disputed">>, <<"Disputed", "Resolved">>,
     <<"Disputed", "ChargedBack">>}

\* C3: a stored deposit's state only moves Normal -> Disputed -> Resolved or
\* ChargedBack (so it is disputed at most once); a Dispute on a non-Normal
\* deposit and a Resolve or Chargeback on a non-Disputed deposit change nothing.
\* Stated of every command the engine can be given in a reachable state.
C3_DisputeStateMonotone ==
    \A cmd \in InputTransaction :
        LET e2 == process_record(Self, cmd) IN
        \/ e2 = Self
        \/ \A c \in DOMAIN accounts : \A t \in DOMAIN accounts[c].transactions :
            accounts[c].transactions[t].kind = "Deposit" =>
                LET old == accounts[c].transactions[t].state IN
                /\ c \in DOMAIN e2.accounts
                /\ t \in DOMAIN e2.accounts[c].transactions
                /\ e2.accounts[c].transactions[t].kind = "Deposit"
                /\ \/ e2.accounts[c].transactions[t].state = old
                   \/ <<old, e2.accounts[c].transactions[t].state>>
                         \in DisputeStateMoves
                /\ (cmd.client = c /\ cmd.tx = t /\ cmd.type = "Dispute"
                      /\ old # "Normal") => e2 = Self
                /\ (cmd.client = c /\ cmd.tx = t
                      /\ cmd.type \in {"Resolve", "Chargeback"}
                      /\ old # "Disputed") => e2 = Self

\* One account went through both end states of a dispute.
C3_Witness ==
    \E c \in DOMAIN accounts :
        /\ StoredWithState(c, "Resolved") # {}
        /\ StoredWithState(c, "ChargedBack") # {}

\* ---- C4 ----
\* C4: a Deposit or Withdrawal carrying a transaction id already stored in the
\* same client's account changes nothing of that account, whatever its amount.
C4_ReplayIsNoOp ==
    \A c \in DOMAIN accounts : \A t \in DOMAIN accounts[c].transactions :
        \A a \in Amounts :
            /\ deposit(Self, c, t, a) = Self
            /\ withdraw(Self, c, t, a) = Self

\* An unlocked account with funds and a stored id: only the id check can
\* reject the replay.
C4_Witness ==
    \E c \in DOMAIN accounts :
        /\ ~accounts[c].locked
        /\ accounts[c].available > 0
        /\ DOMAIN accounts[c].transactions # {}

\* ---- C5 ----
\* C5: a Withdrawal with available < amount changes nothing and stores no
\* record, whatever held is; one that is applied had available >= amount,
\* lowers available by exactly the amount and leaves held alone.
C5_WithdrawalChecksAvailable ==
    \A c \in ClientIds, t \in TransactionIds, a \in Amounts :
        LET before == AccountOrDefault(Self, c)
            e2 == withdraw(Self, c, t, a)
            after == AccountOrDefault(e2, c)
        IN  /\ before.available < a =>
                /\ after = before
                /\ e2.transaction_ids_processed = transaction_ids_processed
                /\ (c \in DOMAIN accounts => e2 = Self)
            /\ after # before =>
                /\ before.available >= a
                /\ after.available = before.available - a
                /\ after.held = before.held
                /\ after.locked = before.locked
                /\ after.transactions
                     = Insert(before.transactions, t, WithdrawalTx(a))

\* Held funds would cover a withdrawal that available funds do not, and an
\* unused id is at hand.
C5_Witness ==
    \E c \in DOMAIN accounts, a \in Amounts :
        /\ ~accounts[c].locked
        /\ accounts[c].available < a
        /\ total(accounts[c]) >= a
        /\ TransactionIds \ transaction_ids_processed # {}

\* ---- C6 ----
DepositTakesEffect(c, t, a) ==
    LET before == AccountOrDefault(Self, c)
        after == AccountOrDefault(deposit(Self, c, t, a), c)
    IN  /\ after.available = before.available + a
        /\ t \in DOMAIN after.transactions
        /\ after.transactions[t] = DepositTx(a, "Normal")

\* C6 as stated: a positive Deposit on an absent or unlocked account, with an id
\* not stored in that same account, always takes effect, whatever ids other
\* clients used.
C6_PerClientNamespace ==
    \A c \in ClientIds, t \in TransactionIds, a \in Amounts :
        (/\ a > 0
         /\ ~AccountOrDefault(Self, c).locked
         /\ t \notin DOMAIN AccountOrDefault(Self, c).transactions)
            => DepositTakesEffect(c, t, a)

\* C6 amended: a positive Deposit on an absent or unlocked account, with an id
\* no client has used in a successful Deposit or Withdrawal (the engine-wide
\* processed-id set), always takes effect.
C6_EngineWideNamespace ==
    \A c \in ClientIds, t \in TransactionIds, a \in Amounts :
        (/\ a > 0
         /\ ~AccountOrDefault(Self, c).locked
         /\ t \notin transaction_ids_processed)
            => DepositTakesEffect(c, t, a)

\* Another client has stored records, one client is still absent and an id is
\* unused: a deposit creates the absent account.
C6_Witness ==
    /\ \E c \in DOMAIN accounts : DOMAIN accounts[c].transactions # {}
    /\ ClientIds \ DOMAIN accounts # {}
    /\ TransactionIds \ transaction_ids_processed # {}

\* ---- C7 ----
\* Both commands try to store a record under the same transaction id.
SameStoredId(cmd1, cmd2) ==
    /\ cmd1.type \in {"Deposit", "Withdrawal"}
    /\ cmd2.type \in {"Deposit", "Withdrawal"}
    /\ cmd1.tx = cmd2.tx

Commute(e, cmd1, cmd2) ==
    process_record(process_record(e, cmd1), cmd2)
        = process_record(process_record(e, cmd2), cmd1)

\* C7 as stated: two adjacent commands naming different clients can be swapped
\* without changing the final ledger.
C7_DifferentClientsCommute ==
    \A cmd1 \in InputTransaction, cmd2 \in InputTransaction :
        cmd1.client # cmd2.client => Commute(Self, cmd1, cmd2)

\* The engine with every account but client c's removed.
OnlyClient(e, c) ==
    Engine([k \in (DOMAIN e.accounts) \cap {c} |-> e.accounts[k]],
           e.transaction_ids_processed)

\* A command reads and writes nothing but the account of the client it names
\* and the engine-wide processed-id set.
Local(e, cmd) ==
    LET full == process_record(e, cmd)
        alone == process_record(OnlyClient(e, cmd.client), cmd)
    IN  /\ OnlyClient(full, cmd.client) = alone
        /\ DOMAIN full.accounts \subseteq (DOMAIN e.accounts) \cup {cmd.client}
        /\ \A k \in (DOMAIN e.accounts) \ {cmd.client} :
               /\ k \in DOMAIN full.accounts
               /\ full.accounts[k] = e.accounts[k]

\* C7 amended: a command observes only the account of the client it names and
\* the engine-wide set of used transaction ids; two adjacent commands naming
\* different clients can be swapped without changing the final ledger, unless
\* both are a Deposit or Withdrawal carrying the same transaction id.  Checked
\* on every step: the command that made the step commutes with every such
\* command that could come next.  (A command that changes nothing is covered as
\* the cmd2 of the other command's step; two commands that both change nothing
\* commute.)
C7_DifferentClientsCommuteUnlessSameId ==
    [][Self' # Self =>
        /\ \A cmd \in InputTransaction : Local(Self, cmd)
        /\ \A cmd1 \in InputTransaction :
              Self' = process_record(Self, cmd1) =>
                  \A cmd2 \in InputTransaction :
                      (cmd1.client # cmd2.client /\ ~SameStoredId(cmd1, cmd2))
                          => process_record(Self', cmd2)
                               = process_record(process_record(Self, cmd2), cmd1)]_vars

\* Two clients both hold records and one of them is locked.
C7_Witness ==
    \E c1 \in DOMAIN accounts, c2 \in DOMAIN accounts :
        /\ c1 # c2
        /\ accounts[c1].locked
        /\ DOMAIN accounts[c2].transactions # {}
        /\ ~accounts[c2].locked

\* ---- C8 ----
\* C8: a Chargeback on a Disputed deposit of an unlocked account lowers held by
\* the deposit's amount, leaves available alone, locks the account and marks
\* the record ChargedBack; afterwards no Deposit of that client has an effect.
C8_ChargebackEffect ==
    \A c \in DOMAIN accounts :
      /\ (accounts[c].locked /\ StoredWithState(c, "ChargedBack") # {}) =>
            \A t2 \in TransactionIds, a \in Amounts : deposit(Self, c, t2, a) = Self
      /\ \A t \in StoredWithState(c, "Disputed") :
        ~accounts[c].locked =>
            LET amount == accounts[c].transactions[t].amount
                e2 == chargeback(Self, c, t)
                after == e2.accounts[c]
            IN  /\ after.held = accounts[c].held - amount
                /\ after.available = accounts[c].available
                /\ total(after) = total(accounts[c]) - amount
                /\ after.locked
                /\ after.transactions
                     = [accounts[c].transactions EXCEPT ![t].state = "ChargedBack"]
                /\ e2.transaction_ids_processed = transaction_ids_processed
                /\ \A t2 \in TransactionIds, a \in Amounts :
                       deposit(e2, c, t2, a) = e2

\* A charged-back, locked account while an unused id is still at hand for a
\* later deposit.
C8_Witness ==
    \E c \in DOMAIN accounts :
        /\ accounts[c].locked
        /\ StoredWithState(c, "ChargedBack") # {}
        /\ TransactionIds \ transaction_ids_processed # {}

\* ---- C9 ----
\* C9: a Dispute on a Normal deposit moves its amount from available to held
\* and keeps total; a Resolve right after moves it back: balances as before
\* the Dispute, account unlocked, record Resolved.
C9_DisputeResolveRoundTrip ==
    \A c \in DOMAIN accounts : \A t \in StoredWithState(c, "Normal") :
        ~accounts[c].locked =>
            LET amount == accounts[c].transactions[t].amount
                e1 == dispute(Self, c, t)
                mid == e1.accounts[c]
                e2 == resolve(e1, c, t)
                after == e2.accounts[c]
            IN  /\ mid.available = accounts[c].available - amount
                /\ mid.held = accounts[c].held + amount
                /\ total(mid) = total(accounts[c])
                /\ mid.transactions[t].state = "Disputed"
                /\ after.available = accounts[c].available
                /\ after.held = accounts[c].held
                /\ ~after.locked
                /\ after.transactions
                     = [accounts[c].transactions EXCEPT ![t].state = "Resolved"]

\* A resolved deposit in an unlocked account that also made a withdrawal.
C9_Witness ==
    \E c \in DOMAIN accounts :
        /\ ~accounts[c].locked
        /\ StoredWithState(c, "Resolved") # {}
        /\ StoredWithdrawals(c) # {}

\* ---- C10 ----
\* C10: a Dispute, Resolve or Chargeback whose id names a stored Withdrawal, no
\* record of that client, or a record of another client, changes nothing and
\* creates no account.
C10_DisputeNeedsOwnDeposit ==
    \A c \in ClientIds, t \in TransactionIds :
        ~(c \in DOMAIN accounts /\ IsStoredDeposit(accounts[c], t)) =>
            /\ dispute(Self, c, t) = Self
            /\ resolve(Self, c, t) = Self
            /\ chargeback(Self, c, t) = Self

\* One client holds a withdrawal and a disputed deposit while another client
\* is still absent.
C10_Witness ==
    \E c \in DOMAIN accounts :
        /\ ~accounts[c].locked
        /\ StoredWithdrawals(c) # {}
        /\ StoredWithState(c, "Disputed") # {}
        /\ ClientIds \ DOMAIN accounts # {}

\* ---- C11 ----
\* C11: a Deposit or Withdrawal whose amount is zero or negative is a no-op, so
\* every stored record has amount > 0, no Deposit lowers available and no
\* Withdrawal raises it.
C11_NonPositiveAmountIgnored ==
    [][/\ \A c \in ClientIds, t \in TransactionIds, a \in Amounts :
            (a <= 0 /\ (Deposit(c, t, a) \/ Withdraw(c, t, a))) =>
                AccountOrDefault(Self', c) = AccountOrDefault(Self, c)
       /\ AllAmountsPositive'
       /\ \A c \in ClientIds, t \in TransactionIds, a \in Amounts :
            /\ Deposit(c, t, a) =>
                 AccountOrDefault(Self', c).available
                    >= AccountOrDefault(Self, c).available
            /\ Withdraw(c, t, a) =>
                 AccountOrDefault(Self', c).available
                    <= AccountOrDefault(Self, c).available]_vars

\* ---- C18 ----
\* C18: with positive amounts, no Deposit, Withdrawal, Resolve or Chargeback
\* takes available from a non-negative value to a negative one; a Dispute of a
\* Normal deposit is applied whatever available is, also when it is smaller
\* than the disputed amount.
C18_OnlyDisputeMakesAvailableNegative ==
    AllAmountsPositive =>
        \A c \in ClientIds, t \in TransactionIds :
            LET before == AccountOrDefault(Self, c) IN
            /\ before.available >= 0 =>
                /\ \A a \in Amounts : a > 0 =>
                      /\ AccountOrDefault(deposit(Self, c, t, a), c).available >= 0
                      /\ AccountOrDefault(withdraw(Self, c, t, a), c).available >= 0
                /\ AccountOrDefault(resolve(Self, c, t), c).available >= 0
                /\ AccountOrDefault(chargeback(Self, c, t), c).available >= 0
            /\ (/\ c \in DOMAIN accounts
                /\ ~accounts[c].locked
                /\ t \in StoredWithState(c, "Normal")) =>
                   dispute(Self, c, t).accounts[c].available
                      = before.available - accounts[c].transactions[t].amount

\* A deposit was withdrawn, then disputed and charged back: the locked account
\* is left with a negative available balance.
C18_Witness ==
    /\ AllAmountsPositive
    /\ \E c \in DOMAIN accounts :
          /\ accounts[c].available < 0
          /\ accounts[c].locked
          /\ StoredWithdrawals(c) # {}

\* ---- C19 ----
\* The command that led from e to e2 stored no record for client c.
StoredNothing(e, e2, c) ==
    DOMAIN AccountOrDefault(e2, c).transactions
        = DOMAIN AccountOrDefault(e, c).transactions

\* The deposit that led from e2 to e3 credited a2 to client c2 and stored a
\* Normal Deposit record under t.
Accepted(e2, e3, c2, t, a2) ==
    /\ t \in DOMAIN e3.accounts[c2].transactions
    /\ e3.accounts[c2].transactions[t] = DepositTx(a2, "Normal")
    /\ e3.accounts[c2].available = AccountOrDefault(e2, c2).available + a2

\* The rejected command on (c, t) changed no field of c's account and did not
\* use up t: if t was free, a positive Deposit carrying t on any unlocked
\* account is accepted afterwards.
IdStillFree(e, e2, c, t) ==
    /\ AccountOrDefault(e2, c) = AccountOrDefault(e, c)
    /\ e2.transaction_ids_processed = e.transaction_ids_processed
    /\ t \notin e.transaction_ids_processed =>
         \A c2 \in ClientIds, a2 \in Amounts :
            (a2 > 0 /\ ~AccountOrDefault(e2, c2).locked) =>
                Accepted(e2, deposit(e2, c2, t, a2), c2, t, a2)

\* A Deposit or Withdrawal on (c, t) that stored nothing left t free.
RejectedKeepsIdFree(e, e2, c, t) ==
    StoredNothing(e, e2, c) => IdStillFree(e, e2, c, t)

\* C19: only a successful Deposit or Withdrawal creates a stored record; a
\* rejected one stores nothing and leaves its id unused, so a later positive
\* Deposit with the same id on an unlocked account is still accepted.
C19_RejectedKeepsIdFree ==
    \A c \in ClientIds, t \in TransactionIds :
        /\ \A a \in Amounts :
            /\ RejectedKeepsIdFree(Self, deposit(Self, c, t, a), c, t)
            /\ RejectedKeepsIdFree(Self, withdraw(Self, c, t, a), c, t)
        /\ StoredNothing(Self, dispute(Self, c, t), c)
        /\ StoredNothing(Self, resolve(Self, c, t), c)
        /\ StoredNothing(Self, chargeback(Self, c, t), c)

\* An unlocked account without funds for a withdrawal, a locked account, and an
\* id no record uses: both kinds of rejection can happen on a free id.
C19_Witness ==
    /\ TransactionIds \ transaction_ids_processed # {}
    /\ \E c \in DOMAIN accounts : accounts[c].locked
    /\ \E c \in DOMAIN accounts :
          /\ ~accounts[c].locked
          /\ accounts[c].available < 1

\* ---- C20 ----
\* C20: a command naming client c leaves every other account as it was
\* (balances, lock flag, stored transactions) and creates no other account,
\* whether it is applied or ignored.
C20_OtherAccountsUntouched ==
    \A cmd \in InputTransaction :
        LET e2 == process_record(Self, cmd) IN
        \/ e2 = Self
        \/ /\ DOMAIN e2.accounts \subseteq (DOMAIN accounts) \cup {cmd.client}
           /\ \A k \in (DOMAIN accounts) \ {cmd.client} :
                  /\ k \in DOMAIN e2.accounts
                  /\ e2.accounts[k] = accounts[k]

\* Two clients hold records; one has a Normal deposit a stray dispute could
\* hit, the other a Disputed one.
C20_Witness ==
    \E c1 \in DOMAIN accounts, c2 \in DOMAIN accounts :
        /\ c1 # c2
        /\ ~accounts[c1].locked
        /\ ~accounts[c2].locked
        /\ StoredWithState(c1, "Normal") # {}
        /\ StoredWithState(c2, "Disputed") # {}

\* ---- C12 ----
\* The clients that have a row in the snapshot of the engine e.
RowClients(e) == {r.client : r \in account_rows(e)}

\* C12 as stated: the snapshot has a row for a client only if that client had
\* a successful Deposit, that is, its account stores a Deposit record; looked
\* at for ledgers built from positive amounts only.
C12_RowOnlyAfterDeposit ==
    (written.done /\ AllAmountsPositive) =>
        \A i \in DOMAIN written.rows :
            \E t \in DOMAIN accounts[written.rows[i].client].transactions :
                accounts[written.rows[i].client].transactions[t].kind = "Deposit"

\* C12, amended: a client that has no row gets one only by a row that is a
\* Deposit or Withdrawal naming it, applied or rejected by the ledger; no
\* Dispute, Resolve or Chargeback, no row naming another client and no row
\* that is skipped makes it appear, and no row removes a client.
C12_RowOnlyAfterDepositOrWithdrawal ==
    \A item \in ReadItems :
        LET e2 == apply_record(Self, item).engine IN
        /\ RowClients(Self) \subseteq RowClients(e2)
        /\ \A c \in RowClients(e2) \ RowClients(Self) :
            /\ item.kind = "Row"
            /\ item.client = c
            /\ Trim(item.tx_type) \in {TextDeposit, TextWithdrawal}
            /\ item.amount # NoAmount

\* The written snapshot has a row for a client without any stored record (its
\* account was made by a rejected Deposit or Withdrawal), next to a client
\* with a stored Deposit.
C12_Witness ==
    /\ written.done
    /\ \E i \in DOMAIN written.rows, j \in DOMAIN written.rows :
        /\ accounts[written.rows[i].client].transactions = EmptyMap
        /\ StoredWithState(written.rows[j].client, "Normal") # {}

\* ---- C13 ----
\* The five transaction types of the input format.
TransactionTypeTexts ==
    {TextDeposit, TextWithdrawal, TextDispute, TextResolve, TextChargeback}

ToLowerChar(ch) ==
    CASE ch = "D" -> "d"
      [] ch = "R" -> "r"
      [] ch = "W" -> "w"
      [] ch = "C" -> "c"
      [] OTHER -> ch

ToLower(s) == [i \in 1..Len(s) |-> ToLowerChar(s[i])]

\* The type a row names, whatever its case and padding.
TypeOf(item) == ToLower(Trim(item.tx_type))

\* The record-level rejections of command normalization: a malformed row, an
\* unknown type, a deposit or withdrawal without an amount.
Rejected(item) ==
    \/ item.kind = "Malformed"
    \/ /\ item.kind = "Row"
       /\ TypeOf(item) \notin TransactionTypeTexts
    \/ /\ item.kind = "Row"
       /\ TypeOf(item) \in {TextDeposit, TextWithdrawal}
       /\ item.amount = NoAmount

\* C13: a rejected row leaves the ledger as it is, is counted as skipped and
\* keeps the loop running; a row in the lower-case spelling is applied as its
\* command, for dispute, resolve and chargeback with or without an amount;
\* the run ends in no record-level error (the only error is the failed open,
\* before any row).
C13_RejectionsNotFatal ==
    /\ result \in {"NotStarted", "Running", "Ok", "OpenFile"}
    /\ result = "OpenFile" => (skipped = 0 /\ Self = EngineDefault)
    /\ \A item \in ReadItems :
        LET r == apply_record(Self, item) IN
        /\ r.result = "Running"
        /\ Rejected(item) => (r.engine = Self /\ r.warned)
        /\ (item.kind = "Row" /\ item.amount # NoAmount) =>
            /\ item.tx_type = TextDeposit =>
                r.engine = deposit(Self, item.client, item.tx, item.amount[1])
            /\ item.tx_type = TextWithdrawal =>
                r.engine = withdraw(Self, item.client, item.tx, item.amount[1])
        /\ item.kind = "Row" =>
            /\ item.tx_type = TextDispute =>
                r.engine = dispute(Self, item.client, item.tx)
            /\ item.tx_type = TextResolve =>
                r.engine = resolve(Self, item.client, item.tx)
            /\ item.tx_type = TextChargeback =>
                r.engine = chargeback(Self, item.client, item.tx)

\* A run has returned Ok after MaxSkipped skipped rows, with rows applied
\* up to a dispute and a chargeback.
C13_Witness ==
    /\ result = "Ok"
    /\ skipped = MaxSkipped
    /\ \E c \in DOMAIN accounts, c2 \in DOMAIN accounts :
        /\ StoredWithState(c, "Disputed") # {}
        /\ StoredWithState(c2, "ChargedBack") # {}

\* ---- C14 ----
\* The row with its type field in the trimmed lower-case spelling.
Lowered(item) == [item EXCEPT !.tx_type = TypeOf(item)]

\* C14: a row whose type is an upper/lower-case spelling of one of the five
\* types, padded or not, yields the same command as the lower-case spelling
\* and so has the same effect on the ledger.
C14_TypeCaseInsensitive ==
    result = "Running" =>
        \A item \in ReadItems :
            (item.kind = "Row" /\ TypeOf(item) \in TransactionTypeTexts) =>
                /\ try_from(deserialize(item).raw)
                     = try_from(deserialize(Lowered(item)).raw)
                /\ apply_record(Self, item) = apply_record(Self, Lowered(item))

\* ---- C15 ----
\* C15: a failed read of the input ends the run with an error, it is not
\* skipped like a malformed row, which keeps the run going.
C15_ReadFailureEndsRun ==
    result = "Running" =>
        \A item \in ReadItems :
            /\ item.kind = "IoError" =>
                (apply_record(Self, item).result \notin {"Running", "Ok"}
                 /\ ~apply_record(Self, item).warned)
            /\ item.kind = "Malformed" =>
                apply_record(Self, item).result = "Running"

\* ---- C16 ----
\* C16: the written snapshot has exactly one row per known client, and every
\* run of write_accounts over the same ledger emits the rows in the order of
\* the snapshot that was written.
C16_RowOrderDeterministic ==
    written.done =>
        /\ Len(written.rows) = Cardinality(DOMAIN accounts)
        /\ \A c \in DOMAIN accounts :
            \E i \in DOMAIN written.rows : written.rows[i].client = c
        /\ \A out \in write_accounts(Self) : out = written.rows

\* ---- C17 ----
\* C17: in every written row the total field is the sum of the available and
\* held fields of that row, as rendered; looked at for ledgers built from
\* positive amounts only.
C17_RenderedTotalIsSum ==
    (written.done /\ AllAmountsPositive) =>
        \A i \in DOMAIN written.rows :
            written.rows[i].total = written.rows[i].available + written.rows[i].held

\* ---- C21 ----
\* The sum of the amounts of the records of txs stored under the ids in S.
RECURSIVE SumAmounts(_, _)
SumAmounts(txs, S) ==
    IF S = {} THEN 0
    ELSE LET t == CHOOSE x \in S : TRUE
         IN  txs[t].amount + SumAmounts(txs, S \ {t})

\* C21: in every account, available is the sum of its Normal and Resolved
\* deposits minus the sum of its withdrawals, held is the sum of its Disputed
\* deposits, and the account is locked exactly when it holds a ChargedBack
\* deposit, of which there is at most one.
C21_BalancesFromRecords ==
    \A c \in DOMAIN accounts :
        LET txs == accounts[c].transactions IN
        /\ accounts[c].available
             = SumAmounts(txs, StoredWithState(c, "Normal")
                                \cup StoredWithState(c, "Resolved"))
               - SumAmounts(txs, StoredWithdrawals(c))
        /\ accounts[c].held = SumAmounts(txs, StoredWithState(c, "Disputed"))
        /\ accounts[c].locked <=> (StoredWithState(c, "ChargedBack") # {})
        /\ Cardinality(StoredWithState(c, "ChargedBack")) <= 1

\* A locked account with its charged-back deposit next to an unlocked account
\* that holds a disputed deposit.
C21_Witness ==
    \E c \in DOMAIN accounts, c2 \in DOMAIN accounts :
        /\ accounts[c].locked
        /\ StoredWithState(c, "ChargedBack") # {}
        /\ ~accounts[c2].locked
        /\ StoredWithState(c2, "Disputed") # {}
        /\ accounts[c2].held # 0

\* ---- C22 ----
\* C22: every stored transaction id is in the processed-id set and is stored
\* in one account only; and whatever command comes next, every stored record
\* stays where it is with the kind and the amount it was created with.
C22_StoredIdsUniqueAndKept ==
    /\ \A c \in DOMAIN accounts : \A t \in DOMAIN accounts[c].transactions :
        /\ t \in transaction_ids_processed
        /\ \A c2 \in (DOMAIN accounts) \ {c} :
                t \notin DOMAIN accounts[c2].transactions
    /\ \A cmd \in InputTransaction :
        LET e2 == process_record(Self, cmd) IN
        \/ e2 = Self
        \/ \A c \in DOMAIN accounts : \A t \in DOMAIN accounts[c].transactions :
            /\ c \in DOMAIN e2.accounts
            /\ t \in DOMAIN e2.accounts[c].transactions
            /\ e2.accounts[c].transactions[t].kind = accounts[c].transactions[t].kind
            /\ e2.accounts[c].transactions[t].amount
                 = accounts[c].transactions[t].amount

\* Two clients each hold a record, one of them a deposit whose dispute was
\* resolved: ids are spread over accounts and a record's state has moved.
C22_Witness ==
    \E c \in DOMAIN accounts : \E c2 \in (DOMAIN accounts) \ {c} :
        /\ StoredWithState(c, "Resolved") # {}
        /\ DOMAIN accounts[c2].transactions # {}
        /\ Cardinality(transaction_ids_processed) >= 2

====
